---------------------------- MODULE Spec2Model ----------------------------
(***************************************************************************)
(* A model of the Kevo Plus client library                                 *)
(* (custom_components/kevo_plus/aiokevoplus/__init__.py).                  *)
(*                                                                         *)
(* The library is asyncio code: a coroutine runs without interruption      *)
(* between two awaits, so every action below is the code between one await *)
(* and the next.  The servers (token endpoint, nonce endpoint, REST API,   *)
(* web-socket server) are the environment: their answers are drawn with \E *)
(* from small sets.                                                        *)
(*                                                                         *)
(*   SpecRest    login, token refresh, _api_post and get_locks, run by     *)
(*               concurrent callers against one KevoApi object             *)
(*   SpecStream  websocket_connect / websocket_close and the background    *)
(*               task(s) running __websocket_connect                       *)
(*   SpecFrames  __process_message on the frames of a connected stream,    *)
(*               beside get_locks                                          *)
(*   SpecObservers  the dispatch of frames to observers that raise,        *)
(*               register and de-register                                  *)
(*   SpecCert    __generate_certificate, a pure encoding, on bounded       *)
(*               device ids, times and random fills                        *)
(***************************************************************************)
EXTENDS Integers, Sequences, FiniteSets, TLC

(***************************************************************************)
(* Bounds of the model.                                                    *)
(***************************************************************************)
\* concurrent callers of get_locks / _api_post
MaxOps == 2
\* the clock runs from 0 to MaxNow, in steps of TickStep seconds
MaxNow == 100
TickStep == 50
\* asyncio tasks alive at the same time
MaxTasks == 2
\* reconnects in a row (the delay reaches its cap at the eighth)
MaxAttempts == 9
\* frames the server sends
MaxMessages == 2
\* observers that register
MaxCallbacks == 2
\* runs of the device-certificate encoding
MaxRuns == 2

(***************************************************************************)
(* Program constants.                                                      *)
(***************************************************************************)
\* "if self._expires_at < time.time() + 100"
ExpiryMargin == 100

Ops == 1..MaxOps

\* The identity of a token value is the number of the token-endpoint response
\* that carried it; NoToken is the constructor's None.
NoToken == 0

\* "expires_in" values the token endpoint reports
ExpiresInValues == {ExpiryMargin, 2 * ExpiryMargin}

\* Answers of the token endpoint: an HTTP status class, and for a 2xx answer
\* the JSON field (if any) the body lacks and its "expires_in".
TokenFields == <<"access_token", "id_token", "refresh_token", "expires_in">>
TokenResponses ==
    {[status |-> "err", missing |-> "none", expires_in |-> 0]}
    \cup [status : {"2xx"}, missing : {"none"}, expires_in : ExpiresInValues]
    \cup [status : {"2xx"},
          missing : {TokenFields[i] : i \in 1..Len(TokenFields)},
          expires_in : {ExpiryMargin}]

\* HTTP status classes of a REST answer: success, 403, 401, any other non-2xx
RestStatuses == {"2xx", "403", "401", "other"}

\* "locks" arrays a 2xx answer of GET .../locks carries
LockPayloads ==
    {<<>>,
     <<[id |-> "L1", name |-> "Front", firmwareVersion |-> "1.0",
        batteryLevel |-> 1, boltState |-> "Locked", brand |-> "Kwikset"]>>,
     <<[id |-> "L1", name |-> "Front", firmwareVersion |-> "1.0",
        batteryLevel |-> 0, boltState |-> "Moving", brand |-> "Kwikset"]>>}

VARIABLES
    now,            \* time.time(), in seconds
    tok,            \* _access_token, _id_token, _refresh_token, _expires_at
    user_id,        \* _user_id
    respSeq,        \* token-endpoint responses received so far
    login,          \* the login() coroutine: its position and its result
    ops,            \* the callers of get_locks / _api_post
    devices,        \* _devices
    reconnect_attempts,  \* _reconnect_attempts
    disconnecting,  \* _disconnecting
    websocket,      \* _websocket: the connection it refers to, or NoRef
    websocket_task, \* _websocket_task: the task it refers to, or NoRef
    tasks,          \* the asyncio tasks running __websocket_connect
    sock,           \* the web-socket connections, by the task that opened them
    closer,         \* the caller of websocket_close: idle or closing
    delivered,      \* frames handed to __process_message so far
    hist,           \* what happened, for the claims; never read by an action
    callbacks,      \* _callbacks
    dispatch,       \* the last frame processed and the callbacks it invoked;
                    \* never read by an action
    device_id,      \* _device_id
    certs           \* the byte lists __generate_certificate has built

restVars == <<now, tok, user_id, respSeq, login, ops, devices>>

streamVars == <<reconnect_attempts, disconnecting, websocket, websocket_task,
                tasks, sock, closer, delivered, hist>>

frameVars == <<callbacks, dispatch>>

certVars == <<device_id, certs>>

vars == <<now, tok, user_id, respSeq, login, ops, devices,
          reconnect_attempts, disconnecting, websocket, websocket_task,
          tasks, sock, closer, delivered, hist, callbacks, dispatch,
          device_id, certs>>

(***************************************************************************)
(* KevoLock.__init__                                                       *)
(***************************************************************************)
\* is_locked and is_jammed hold Python's True, False or None
None == "None"

Bool(b) == IF b THEN "True" ELSE "False"

KevoLock(lock) ==
    [lock_id       |-> lock.id,
     name          |-> lock.name,
     firmware      |-> lock.firmwareVersion,
     battery_level |-> lock.batteryLevel,
     is_locking    |-> FALSE,
     is_unlocking  |-> FALSE,
     is_locked     |-> Bool(lock.boltState \in {"Locked", "LockedBoltJam"}),
     is_jammed     |-> Bool(lock.boltState \in {"BoltJam", "UnlockedBoltJam", "LockedBoltJam"}),
     brand         |-> lock.brand]

(***************************************************************************)
(* The token set.                                                          *)
(***************************************************************************)
\* KevoApi.__init__: no tokens, _expires_at = 0.  exp_src is not a field of
\* the program: it records which response _expires_at was computed from.
InitTok ==
    [access |-> NoToken, id |-> NoToken, refresh |-> NoToken,
     expires_at |-> 0, exp_src |-> NoToken]

\* The four assignments that follow res.json() in async_refresh_token and in
\* login, for response number k received at time n.  They run in order and a
\* field the body lacks raises KeyError, which leaves the earlier ones done.
FieldIndex(f) == CHOOSE i \in 1..Len(TokenFields) : TokenFields[i] = f

Assigned(r, i) == r.missing = "none" \/ i < FieldIndex(r.missing)

AssignTokenFields(t, r, k, n) ==
    [access     |-> IF Assigned(r, 1) THEN k ELSE t.access,
     id         |-> IF Assigned(r, 2) THEN k ELSE t.id,
     refresh    |-> IF Assigned(r, 3) THEN k ELSE t.refresh,
     expires_at |-> IF Assigned(r, 4) THEN n + r.expires_in ELSE t.expires_at,
     exp_src    |-> IF Assigned(r, 4) THEN k ELSE t.exp_src]

\* (mutant) the assignments without the raise_for_status() before them
TokensAfterResponse_NoRaise(t, r, k, n) == AssignTokenFields(t, r, k, n)

\* res.raise_for_status() comes first: a non-2xx answer assigns nothing.
TokensAfterResponse(t, r, k, n) ==
    IF r.status = "2xx" THEN AssignTokenFields(t, r, k, n) ELSE t

\* (mutant) "<=" for "<"
TokenExpired_Inclusive(t, n) == t <= n + ExpiryMargin

\* "if self._expires_at < time.time() + 100"
TokenExpired(t, n) == t < n + ExpiryMargin

(***************************************************************************)
(* One caller of get_locks or _api_post.                                   *)
(*   pc        idle, refresh1, nonce1, req1, refresh2, nonce2, req2,       *)
(*             returned, raised                                           *)
(*   hdr       the headers __get_headers built last: the access token and  *)
(*             the number of the nonce fetch they came from                *)
(*   result    what the call returned or raised                            *)
(* chk, chkT, chkNow, chkA, nRefresh, nReq, nNonce, st1, st2, raisedAt     *)
(* record what the call did (chkT, chkNow and chkA: the expiry, the time   *)
(* and the access token at its expiry check); the program does not keep    *)
(* them.                                                                   *)
(***************************************************************************)
IdleOp ==
    [kind |-> "none", pc |-> "idle",
     chk |-> FALSE, chkT |-> 0, chkNow |-> 0, chkA |-> NoToken,
     nRefresh |-> 0, nReq |-> 0, nNonce |-> 0,
     st1 |-> "none", st2 |-> "none",
     hdr |-> [auth |-> NoToken, nonce |-> 0],
     result |-> "none", raisedAt |-> "none"]

Raise(op, exc) == [op EXCEPT !.pc = "raised", !.result = exc, !.raisedAt = op.pc]

\* the expiry check, followed by the await it leads to
SendRefresh(op, p) == [op EXCEPT !.pc = p, !.nRefresh = @ + 1]
SendNonce(op, p)   == [op EXCEPT !.pc = p]
SendRequest(op, p) == [op EXCEPT !.pc = p, !.nReq = @ + 1]

Checked(op) ==
    [op EXCEPT !.chk = TRUE, !.chkT = tok.expires_at, !.chkNow = now,
               !.chkA = tok.access]

LoggedIn == tok.access # NoToken /\ user_id # "none"

(***************************************************************************)
(* time.time() advances between any two steps.                             *)
(***************************************************************************)
Tick ==
    /\ now + TickStep <= MaxNow
    /\ now' = now + TickStep
    /\ UNCHANGED <<tok, user_id, respSeq, login, ops, devices>>
    /\ UNCHANGED streamVars
    /\ UNCHANGED frameVars
    /\ UNCHANGED certVars

(***************************************************************************)
(* KevoApi.login.  pc: idle, auth, page, cred, redir, token, returned,     *)
(* raised.  cred records how the credential POST was answered; the program *)
(* does not keep it.                                                       *)
(***************************************************************************)
LoginRaise(exc) == [login EXCEPT !.pc = "raised", !.result = exc]

\* login falls off its end
LoginReturn == [login EXCEPT !.pc = "returned", !.result = "None"]

\* PKCE pair, certificate, state; GET of the authorization endpoint
login_begin ==
    /\ login.pc = "idle"
    /\ login' = [login EXCEPT !.pc = "auth"]
    /\ UNCHANGED <<now, tok, user_id, respSeq, ops, devices>>
    /\ UNCHANGED streamVars
    /\ UNCHANGED frameVars
    /\ UNCHANGED certVars

\* "if res.status_code == 302: ... else: res.raise_for_status()": the
\* redirect is followed; any other status goes to raise_for_status, which
\* raises for an error status and returns for a 2xx one.
login_auth_response(st) ==
    /\ login.pc = "auth"
    /\ login' = CASE st = "302" -> [login EXCEPT !.pc = "page"]
                  [] st = "2xx" -> LoginReturn
                  [] OTHER      -> LoginRaise("HTTPStatusError")
    /\ UNCHANGED <<now, tok, user_id, respSeq, ops, devices>>
    /\ UNCHANGED streamVars
    /\ UNCHANGED frameVars
    /\ UNCHANGED certVars

\* the login page: raise_for_status, then the two scraped inputs (next() of
\* an empty finditer raises), then the POST of the credentials
login_page_response(st, scraped) ==
    /\ login.pc = "page"
    /\ login' = CASE st # "2xx" -> LoginRaise("HTTPStatusError")
                  [] ~scraped   -> LoginRaise("StopIteration")
                  [] OTHER      -> [login EXCEPT !.pc = "cred"]
    /\ UNCHANGED <<now, tok, user_id, respSeq, ops, devices>>
    /\ UNCHANGED streamVars
    /\ UNCHANGED frameVars
    /\ UNCHANGED certVars

\* the answer to the credentials: a 302 to UNIKEY_INVALID_LOGIN_URL raises
\* KevoAuthError, another 302 is followed, anything else goes to
\* raise_for_status
CredAnswer(st, invalid) ==
    CASE st = "302" /\ invalid  -> "invalid"
      [] st = "302" /\ ~invalid -> "redirect"
      [] OTHER                  -> st

\* (mutant) no comparison of the Location with UNIKEY_INVALID_LOGIN_URL
CredOutcome_Follow(st, invalid) ==
    CASE st = "302" -> [login EXCEPT !.pc = "redir"]
      [] st = "2xx" -> LoginReturn
      [] OTHER      -> LoginRaise("HTTPStatusError")

CredOutcome(st, invalid) ==
    CASE st = "302" /\ invalid  -> LoginRaise("KevoAuthError")
      [] st = "302" /\ ~invalid -> [login EXCEPT !.pc = "redir"]
      [] st = "2xx"             -> LoginReturn
      [] OTHER                  -> LoginRaise("HTTPStatusError")

login_cred_response(st, invalid) ==
    /\ login.pc = "cred"
    /\ login' = [CredOutcome(st, invalid) EXCEPT !.cred = CredAnswer(st, invalid)]
    /\ UNCHANGED <<now, tok, user_id, respSeq, ops, devices>>
    /\ UNCHANGED streamVars
    /\ UNCHANGED frameVars
    /\ UNCHANGED certVars

\* the second redirect: its fragment carries the code (query_params["code"]
\* raises KeyError without one), which is posted to the token endpoint
login_redirect_response(st, hasCode) ==
    /\ login.pc = "redir"
    /\ login' = CASE st = "302" /\ hasCode  -> [login EXCEPT !.pc = "token"]
                  [] st = "302" /\ ~hasCode -> LoginRaise("KeyError")
                  [] st = "2xx"             -> LoginReturn
                  [] OTHER                  -> LoginRaise("HTTPStatusError")
    /\ UNCHANGED <<now, tok, user_id, respSeq, ops, devices>>
    /\ UNCHANGED streamVars
    /\ UNCHANGED frameVars
    /\ UNCHANGED certVars

\* the token endpoint's answer: raise_for_status, the four assignments,
\* then jwt.decode of the id token and _user_id = jwt_value["sub"]
login_token_response(r, jwtOk) ==
    /\ login.pc = "token"
    /\ respSeq' = respSeq + 1
    /\ tok' = TokensAfterResponse(tok, r, respSeq + 1, now)
    /\ login' = CASE r.status # "2xx"    -> LoginRaise("HTTPStatusError")
                  [] r.missing # "none" -> LoginRaise("KeyError")
                  [] ~jwtOk             -> LoginRaise("DecodeError")
                  [] OTHER              -> LoginReturn
    /\ user_id' = IF r.status = "2xx" /\ r.missing = "none" /\ jwtOk
                  THEN "sub" ELSE user_id
    /\ UNCHANGED <<now, ops, devices>>
    /\ UNCHANGED streamVars
    /\ UNCHANGED frameVars
    /\ UNCHANGED certVars

(***************************************************************************)
(* KevoApi.async_refresh_token, from the answer of the token endpoint on.  *)
(* The request was sent by the caller's previous step (SendRefresh).       *)
(***************************************************************************)
\* where the caller goes on after a refresh that returned
AfterRefresh(op) ==
    CASE op.pc = "refresh1" /\ op.kind = "_api_post" -> SendNonce(op, "nonce1")
      [] op.pc = "refresh1" /\ op.kind = "get_locks" -> SendRequest(op, "req1")
      [] OTHER                                       -> SendNonce(op, "nonce2")

async_refresh_token_response(o, r) ==
    /\ ops[o].pc \in {"refresh1", "refresh2"}
    /\ respSeq' = respSeq + 1
    /\ tok' = TokensAfterResponse(tok, r, respSeq + 1, now)
    /\ ops' = [ops EXCEPT ![o] =
                 CASE r.status # "2xx"    -> Raise(@, "HTTPStatusError")
                   [] r.missing # "none" -> Raise(@, "KeyError")
                   [] OTHER              -> AfterRefresh(@)]
    /\ UNCHANGED <<now, user_id, login, devices>>
    /\ UNCHANGED streamVars
    /\ UNCHANGED frameVars
    /\ UNCHANGED certVars

(***************************************************************************)
(* KevoApi.__get_headers, from the answer of the nonce endpoint on: the    *)
(* headers take the access token as it is now.                             *)
(***************************************************************************)
WithHeaders(op) ==
    [op EXCEPT !.nNonce = @ + 1,
               !.hdr = [auth |-> tok.access, nonce |-> op.nNonce + 1]]

\* get_locks checks the expiry after it has built its headers
GetLocksCheck(op) ==
    IF TokenExpired(tok.expires_at, now)
    THEN SendRefresh(Checked(op), "refresh1")
    ELSE SendRequest(Checked(op), "req1")

AfterHeaders(op) ==
    CASE op.pc = "nonce1" /\ op.kind = "_api_post" -> SendRequest(op, "req1")
      [] op.pc = "nonce1" /\ op.kind = "get_locks" -> GetLocksCheck(op)
      [] OTHER                                     -> SendRequest(op, "req2")

get_headers_response(o, ok) ==
    /\ ops[o].pc \in {"nonce1", "nonce2"}
    /\ ops' = [ops EXCEPT ![o] =
                 IF ok THEN AfterHeaders(WithHeaders(@))
                       ELSE Raise(@, "HTTPStatusError")]
    /\ UNCHANGED <<now, tok, user_id, respSeq, login, devices>>
    /\ UNCHANGED streamVars
    /\ UNCHANGED frameVars
    /\ UNCHANGED certVars

(***************************************************************************)
(* KevoApi._api_post and KevoApi.get_locks.                                *)
(***************************************************************************)
\* _api_post up to its first await: the expiry check, then either the
\* refresh or the headers
api_post_begin(o) ==
    /\ ops[o].pc = "idle"
    /\ LoggedIn
    /\ ops' = [ops EXCEPT ![o] =
                 IF TokenExpired(tok.expires_at, now)
                 THEN SendRefresh(Checked([@ EXCEPT !.kind = "_api_post"]), "refresh1")
                 ELSE SendNonce(Checked([@ EXCEPT !.kind = "_api_post"]), "nonce1")]
    /\ UNCHANGED <<now, tok, user_id, respSeq, login, devices>>
    /\ UNCHANGED streamVars
    /\ UNCHANGED frameVars
    /\ UNCHANGED certVars

\* get_locks up to its first await: the headers
get_locks_begin(o) ==
    /\ ops[o].pc = "idle"
    /\ LoggedIn
    /\ ops' = [ops EXCEPT ![o] = SendNonce([@ EXCEPT !.kind = "get_locks"], "nonce1")]
    /\ UNCHANGED <<now, tok, user_id, respSeq, login, devices>>
    /\ UNCHANGED streamVars
    /\ UNCHANGED frameVars
    /\ UNCHANGED certVars

Return(op) == [op EXCEPT !.pc = "returned", !.result = "json"]

\* the first attempt's status: 403 refreshes and retries, 401 raises
\* KevoPermissionError, another error is re-raised
FirstOutcome(op, st) ==
    CASE st = "2xx" -> Return(op)
      [] st = "403" -> SendRefresh(op, "refresh2")
      [] st = "401" -> Raise(op, "KevoPermissionError")
      [] OTHER      -> Raise(op, "HTTPStatusError")

\* (mutant) a 403 on the retry refreshes and retries again
RetryOutcome_Again(op, st) ==
    CASE st = "403"                        -> SendRefresh(op, "refresh2")
      [] st \in {"401", "other"}           -> Raise(op, "HTTPStatusError")
      [] st = "2xx" /\ op.kind = "get_locks" -> Raise(op, "KevoAuthError")
      [] OTHER                             -> Return(op)

\* the retry's status.  In _api_post a 403 raises KevoAuthError, another
\* error is re-raised and a 2xx answer is returned; in get_locks the inner
\* try is followed by an unconditional "raise KevoAuthError()".
RetryOutcome(op, st) ==
    CASE st = "403"                        -> Raise(op, "KevoAuthError")
      [] st \in {"401", "other"}           -> Raise(op, "HTTPStatusError")
      [] st = "2xx" /\ op.kind = "get_locks" -> Raise(op, "KevoAuthError")
      [] OTHER                             -> Return(op)

\* (mutant) the answer of any call that returns is taken for a list of locks
DevicesAfter_AnyKind(op, payload) ==
    IF op.pc = "returned"
    THEN [i \in 1..Len(payload) |-> KevoLock(payload[i])]
    ELSE devices

\* get_locks builds _devices anew from a 2xx answer it returns
DevicesAfter(op, payload) ==
    IF op.kind = "get_locks" /\ op.pc = "returned"
    THEN [i \in 1..Len(payload) |-> KevoLock(payload[i])]
    ELSE devices

rest_response(o, st, payload) ==
    /\ ops[o].pc = "req1"
    /\ ops' = [ops EXCEPT ![o] = FirstOutcome([@ EXCEPT !.st1 = st], st)]
    /\ devices' = DevicesAfter(ops'[o], payload)
    /\ UNCHANGED <<now, tok, user_id, respSeq, login>>
    /\ UNCHANGED streamVars
    /\ UNCHANGED frameVars
    /\ UNCHANGED certVars

rest_retry_response(o, st, payload) ==
    /\ ops[o].pc = "req2"
    /\ ops' = [ops EXCEPT ![o] = RetryOutcome([@ EXCEPT !.st2 = st], st)]
    /\ devices' = DevicesAfter(ops'[o], payload)
    /\ UNCHANGED <<now, tok, user_id, respSeq, login>>
    /\ UNCHANGED streamVars
    /\ UNCHANGED frameVars
    /\ UNCHANGED certVars

(***************************************************************************)
(* Frames of the event stream and KevoApi.__process_message.               *)
(***************************************************************************)
\* aiokevoplus.const: the bolt states and command statuses of a LockStatus
\* frame
LOCK_STATE_LOCK == "Locked"
LOCK_STATE_UNLOCK == "Unlocked"
LOCK_STATE_JAM == "BoltJam"
LOCK_STATE_LOCK_JAM == "LockedBoltJam"
LOCK_STATE_UNLOCK_JAM == "UnlockedBoltJam"
COMMAND_STATUS_COMPLETE == "Complete"
COMMAND_STATUS_CANCELLED == "Cancelled"
COMMAND_STATUS_PROCESSING == "Processing"
COMMAND_STATUS_DELIVERED == "Delivered"

\* the command types: what KevoLock.lock and KevoLock.unlock post as
\* "command"
CommandTypes == {LOCK_STATE_LOCK, LOCK_STATE_UNLOCK}

\* "command": null
NoCommand == [status |-> None, type |-> None]

\* a key the frame's messageData lacks: reading it raises KeyError
KeyMissing == "<missing>"

\* messageData without a "command" key
AbsentCommand == [status |-> KeyMissing, type |-> KeyMissing]

BoltStates ==
    {LOCK_STATE_LOCK, LOCK_STATE_UNLOCK, LOCK_STATE_JAM, LOCK_STATE_LOCK_JAM,
     LOCK_STATE_UNLOCK_JAM, "Moving"}

Commands ==
    {NoCommand}
    \cup [status : {COMMAND_STATUS_PROCESSING, COMMAND_STATUS_DELIVERED},
          type : CommandTypes]
    \cup {[status |-> COMMAND_STATUS_COMPLETE, type |-> LOCK_STATE_LOCK],
          [status |-> COMMAND_STATUS_CANCELLED, type |-> LOCK_STATE_UNLOCK],
          [status |-> "Failed", type |-> LOCK_STATE_LOCK]}

\* a frame that is not a LockStatus message (or is not JSON at all)
OtherFrame ==
    [messageType |-> "Heartbeat", lockId |-> None, batteryLevel |-> 0,
     boltState |-> None, command |-> NoCommand]

\* The frames the server sends: other messages, LockStatus of a lock that
\* get_locks did not list ("L9") and of the lock it listed ("L1"), the last
\* with every bolt state, with and without a command, once without its
\* "boltState" key and once without its "command" key.
Frames ==
    {OtherFrame}
    \cup {[messageType |-> "LockStatus", lockId |-> "L9", batteryLevel |-> 0,
           boltState |-> LOCK_STATE_UNLOCK,
           command |-> [status |-> COMMAND_STATUS_PROCESSING,
                        type |-> LOCK_STATE_UNLOCK]]}
    \cup [messageType : {"LockStatus"}, lockId : {"L1"}, batteryLevel : {0},
          boltState : BoltStates, command : {NoCommand}]
    \cup [messageType : {"LockStatus"}, lockId : {"L1"}, batteryLevel : {1},
          boltState : {LOCK_STATE_LOCK},
          command : Commands \ {NoCommand}]
    \cup {[messageType |-> "LockStatus", lockId |-> "L1", batteryLevel |-> 0,
           boltState |-> KeyMissing, command |-> NoCommand]}
    \cup {[messageType |-> "LockStatus", lockId |-> "L1", batteryLevel |-> 1,
           boltState |-> LOCK_STATE_UNLOCK, command |-> AbsentCommand]}

\* (mutant) next() with the first record as its default
LockIndex_First(devs, lock_id) == IF Len(devs) > 0 THEN 1 ELSE 0

\* "next((x for x in self._devices if x.lock_id == lock_id))": the index of
\* the first record with that id; 0 stands for the StopIteration of next()
LockIndex(devs, lock_id) ==
    IF \E i \in 1..Len(devs) : devs[i].lock_id = lock_id
    THEN CHOOSE i \in 1..Len(devs) :
             /\ devs[i].lock_id = lock_id
             /\ \A j \in 1..(i - 1) : devs[j].lock_id # lock_id
    ELSE 0

\* (mutant) a bolt state that is not known leaves the record as it is
BoltStateEffect_KeepUnknown(lock, boltState) ==
    CASE boltState = LOCK_STATE_LOCK ->
             [lock EXCEPT !.is_locked = "True", !.is_jammed = "False"]
      [] boltState = LOCK_STATE_UNLOCK ->
             [lock EXCEPT !.is_locked = "False", !.is_jammed = "False"]
      [] boltState = LOCK_STATE_JAM ->
             [lock EXCEPT !.is_jammed = "True"]
      [] boltState = LOCK_STATE_LOCK_JAM ->
             [lock EXCEPT !.is_jammed = "True", !.is_locked = "True"]
      [] boltState = LOCK_STATE_UNLOCK_JAM ->
             [lock EXCEPT !.is_jammed = "True", !.is_locked = "False"]
      [] OTHER -> lock

\* the if/elif chain over boltState
BoltStateEffect(lock, boltState) ==
    CASE boltState = LOCK_STATE_LOCK ->
             [lock EXCEPT !.is_locked = "True", !.is_jammed = "False"]
      [] boltState = LOCK_STATE_UNLOCK ->
             [lock EXCEPT !.is_locked = "False", !.is_jammed = "False"]
      [] boltState = LOCK_STATE_JAM ->
             [lock EXCEPT !.is_jammed = "True"]
      [] boltState = LOCK_STATE_LOCK_JAM ->
             [lock EXCEPT !.is_jammed = "True", !.is_locked = "True"]
      [] boltState = LOCK_STATE_UNLOCK_JAM ->
             [lock EXCEPT !.is_jammed = "True", !.is_locked = "False"]
      [] OTHER ->
             [lock EXCEPT !.is_jammed = None, !.is_locked = None]

\* (mutant) a command in progress sets its flag and leaves the other one
CommandEffect_SetOnly(lock, command) ==
    CASE command.status \in {COMMAND_STATUS_COMPLETE, COMMAND_STATUS_CANCELLED} ->
             [lock EXCEPT !.is_locking = FALSE, !.is_unlocking = FALSE]
      [] command.status \in {COMMAND_STATUS_PROCESSING, COMMAND_STATUS_DELIVERED} ->
             IF command.type = LOCK_STATE_LOCK
             THEN [lock EXCEPT !.is_locking = TRUE]
             ELSE [lock EXCEPT !.is_unlocking = TRUE]
      [] OTHER -> lock

\* (mutant) an unlock command in progress leaves is_locking as it was
CommandEffect_UnlockKeepsLocking(lock, command) ==
    CASE command.status \in {COMMAND_STATUS_COMPLETE, COMMAND_STATUS_CANCELLED} ->
             [lock EXCEPT !.is_locking = FALSE, !.is_unlocking = FALSE]
      [] command.status \in {COMMAND_STATUS_PROCESSING, COMMAND_STATUS_DELIVERED} ->
             IF command.type = LOCK_STATE_LOCK
             THEN [lock EXCEPT !.is_locking = TRUE, !.is_unlocking = FALSE]
             ELSE [lock EXCEPT !.is_unlocking = TRUE]
      [] OTHER -> lock

\* "if command_status is not None: ..."
CommandEffect(lock, command) ==
    CASE command.status \in {COMMAND_STATUS_COMPLETE, COMMAND_STATUS_CANCELLED} ->
             [lock EXCEPT !.is_locking = FALSE, !.is_unlocking = FALSE]
      [] command.status \in {COMMAND_STATUS_PROCESSING, COMMAND_STATUS_DELIVERED} ->
             IF command.type = LOCK_STATE_LOCK
             THEN [lock EXCEPT !.is_locking = TRUE, !.is_unlocking = FALSE]
             ELSE [lock EXCEPT !.is_locking = FALSE, !.is_unlocking = TRUE]
      [] OTHER -> lock

(***************************************************************************)
(* Observers.  A callback is known by a number; what it does when it is    *)
(* invoked is the environment's choice: return ("ok"), raise an Exception  *)
(* ("raise"), call the unregister function register_callback gave it       *)
(* ("unregister"), or register the next callback that is not registered    *)
(* ("register").                                                           *)
(***************************************************************************)
CallbackIds == 1..MaxCallbacks

CallbackActs == {"ok", "raise", "unregister", "register"}

Behaviours == [CallbackIds -> CallbackActs]

Registered(cbs) == {cbs[i] : i \in 1..Len(cbs)}

\* list.remove: the first occurrence goes (ValueError without one, which
\* the callback's caller catches)
Remove(cbs, c) ==
    IF c \in Registered(cbs)
    THEN LET k == CHOOSE i \in 1..Len(cbs) :
                      /\ cbs[i] = c
                      /\ \A j \in 1..(i - 1) : cbs[j] # c
         IN  [i \in 1..(Len(cbs) - 1) |-> IF i < k THEN cbs[i] ELSE cbs[i + 1]]
    ELSE cbs

\* _callbacks after callback c ran and did act
Invoke(cbs, c, act) ==
    CASE act = "unregister" -> Remove(cbs, c)
      [] act = "register" /\ CallbackIds \ Registered(cbs) # {} ->
             Append(cbs, CHOOSE n \in CallbackIds \ Registered(cbs) :
                             \A m \in CallbackIds \ Registered(cbs) : n <= m)
      [] OTHER -> cbs

\* (mutant) no try/except around the call: a callback that raises ends the
\* loop
LoopEnds_Propagates(act) == act = "raise"

\* "try: callback(lock) except Exception as err: _LOGGER.error(...)": the
\* loop goes on whatever the callback did
LoopEnds(act) == FALSE

\* "for callback in self._callbacks:" the list iterator reads element i of
\* the list as it is at that moment, until i is past its end.  d holds the
\* list, the callbacks invoked so far and what each of them did.
RECURSIVE Dispatch(_, _, _)
Dispatch(d, i, beh) ==
    IF i > Len(d.cbs)
    THEN d
    ELSE LET c == d.cbs[i]
             after == [cbs   |-> Invoke(d.cbs, c, beh[c]),
                       calls |-> Append(d.calls, c),
                       acts  |-> Append(d.acts, beh[c])]
         IN  IF LoopEnds(beh[c]) THEN after ELSE Dispatch(after, i + 1, beh)

\* __process_message: what it leaves of _devices and _callbacks, whether it
\* reached the dispatch loop, and what the loop did.  Every exception is
\* caught by the outer "except Exception", after the assignments that
\* preceded it.
ProcessMessage(devs, cbs, f, beh) ==
    LET i == IF f.messageType = "LockStatus" THEN LockIndex(devs, f.lockId) ELSE 0
        skipped == [devices |-> devs, cbs |-> cbs, found |-> FALSE,
                    calls |-> <<>>, acts |-> <<>>]
    IN  CASE i = 0 -> skipped
          [] i # 0 /\ (f.boltState = KeyMissing \/ f.command = AbsentCommand) ->
                 [skipped EXCEPT !.devices =
                      [devs EXCEPT ![i].battery_level = f.batteryLevel]]
          [] OTHER ->
                 LET lock == CommandEffect(
                                 BoltStateEffect(
                                     [devs[i] EXCEPT !.battery_level = f.batteryLevel],
                                     f.boltState),
                                 f.command)
                     d == Dispatch([cbs |-> cbs, calls |-> <<>>, acts |-> <<>>], 1, beh)
                 IN  [devices |-> [devs EXCEPT ![i] = lock], cbs |-> d.cbs,
                      found |-> TRUE, calls |-> d.calls, acts |-> d.acts]

NoDispatch ==
    [frame |-> OtherFrame, found |-> FALSE, start |-> <<>>, end |-> <<>>,
     calls |-> <<>>, acts |-> <<>>]

\* KevoApi.register_callback
register_callback(c) ==
    /\ callbacks' = Append(callbacks, c)
    /\ UNCHANGED dispatch
    /\ UNCHANGED restVars
    /\ UNCHANGED streamVars
    /\ UNCHANGED certVars

\* the unregister function register_callback returned, and
\* KevoApi.unregister_callback, called for a registered callback
unregister_callback(c) ==
    /\ c \in Registered(callbacks)
    /\ callbacks' = Remove(callbacks, c)
    /\ UNCHANGED dispatch
    /\ UNCHANGED restVars
    /\ UNCHANGED streamVars
    /\ UNCHANGED certVars

(***************************************************************************)
(* KevoApi.__generate_certificate: the bytes handed to base64.b64encode.   *)
(* A UUID is the sequence of its 16 bytes, in the order str(uuid) prints   *)
(* them.                                                                   *)
(***************************************************************************)
Reverse(q) == [i \in 1..Len(q) |-> q[Len(q) + 1 - i]]

\* int_val: the four low bytes, lowest first
int_val(v) == [i \in 1..4 |-> (v \div (256 ^ (i - 1))) % 256]

\* short_val: the two low bytes, lowest first
short_val(v) == [i \in 1..2 |-> (v \div (256 ^ (i - 1))) % 256]

\* (mutant) every group of the UUID taken in its printed order
uuid_to_bytes_Plain(u) == Reverse(u)

\* uuid_to_bytes: the byte pairs of the first three groups reversed within
\* their group, those of the last two in order, and the whole list reversed
uuid_to_bytes(u) ==
    Reverse(Reverse(SubSeq(u, 1, 4)) \o Reverse(SubSeq(u, 5, 6))
            \o Reverse(SubSeq(u, 7, 8)) \o SubSeq(u, 9, 10) \o SubSeq(u, 11, 16))

length_encoded_bytes(tag, bytes) == <<tag>> \o short_val(Len(bytes)) \o bytes

ZeroUuid == [i \in 1..16 |-> 0]

\* the list s for device id u and time e; r1 and r2 are what the two calls
\* of random_bytes(32) return
generate_certificate_bytes(u, e, r1, r2) ==
    <<17, 1, 0, 1, 19, 1, 0, 1, 16, 1, 0, 48>>
    \o length_encoded_bytes(18, int_val(1))
    \o length_encoded_bytes(20, int_val(e))
    \o length_encoded_bytes(21, int_val(e))
    \o length_encoded_bytes(22, int_val(e + 86400))
    \o <<48, 1, 0, 6>>
    \o length_encoded_bytes(49, uuid_to_bytes(ZeroUuid))
    \o length_encoded_bytes(50, uuid_to_bytes(u))
    \o length_encoded_bytes(53, r1)
    \o length_encoded_bytes(54, r2)

\* random_bytes(32): "math.floor(255 * random.random())" for each byte, a
\* value of 0..254; three of the lists it can return
RandomBytes == {[i \in 1..32 |-> v] : v \in {0, 7, 254}}

\* device ids (uuid.uuid4() or the caller's) and readings of int(time.time())
DeviceIds ==
    {ZeroUuid,
     [i \in 1..16 |-> i],
     [i \in 1..16 |-> 255 - i],
     [i \in 1..16 |-> (37 * i) % 256]}

CertTimes == {0, 1700000000, 2147397247}

\* one run of __generate_certificate
generate_certificate(r1, r2) ==
    /\ Len(certs) < MaxRuns
    /\ certs' = Append(certs, generate_certificate_bytes(device_id, now, r1, r2))
    /\ UNCHANGED device_id
    /\ UNCHANGED restVars
    /\ UNCHANGED streamVars
    /\ UNCHANGED frameVars

(***************************************************************************)
(* The event stream.                                                       *)
(*                                                                         *)
(* A task is an asyncio.Task running __websocket_connect, in a slot that   *)
(* is taken again once its task has ended.  Its pc is                      *)
(*   unused      no task was in the slot yet                               *)
(*   new         created by asyncio.create_task, not yet run               *)
(*   nonce       in "await self.__get_server_nonce()"                      *)
(*   connecting  in the "async for websocket in websockets.connect(...)",  *)
(*               which dials, and dials again by itself on a failure       *)
(*   recv        in "async for message in websocket"                       *)
(*   sleep       in the asyncio.sleep of __websocket_reconnect             *)
(*   ended       it returned, was cancelled or raised (hist.exit says       *)
(*               which the last one did); nothing in the program reads how  *)
(*               a task ended                                               *)
(* cancel is Task.cancel()'s request: the CancelledError is thrown into    *)
(* the task at the await it is suspended in, when the task next runs.      *)
(* delay is reconnect_delay; nth records which reconnect in a row it is.   *)
(* opened and reopened record that a connection, and then another one, was *)
(* opened with the nonce pair and verification value the task computed.    *)
(***************************************************************************)
Slots == 1..MaxTasks

\* None, for _websocket and _websocket_task
NoRef == 0

\* MAX_RECONNECT_DELAY: int = 240
MAX_RECONNECT_DELAY == 240

NoTask == [pc |-> "unused", cancel |-> FALSE, delay |-> 0, nth |-> 0,
           opened |-> FALSE, reopened |-> FALSE]

NewTask == [pc |-> "new", cancel |-> FALSE, delay |-> 0, nth |-> 0,
            opened |-> FALSE, reopened |-> FALSE]

Ended(t) == t.pc \in {"unused", "ended"}

Alive(t) == ~Ended(t)

\* the task in slot s ends; the connection it held, if any, goes with it
\* (the async generator of websockets.connect is finalised)
EndTask(ts, s) == [ts EXCEPT ![s] = [NoTask EXCEPT !.pc = "ended"]]

Released(so, s) == [so EXCEPT ![s] = IF @ = "open" THEN "closed" ELSE @]

\* the slot asyncio.create_task puts a new task in
FreeSlot == CHOOSE s \in Slots : Ended(tasks[s])

\* Task.cancel(): a request to a task that has not ended, nothing otherwise
Cancelled(ts, ref) ==
    IF ref # NoRef /\ Alive(ts[ref]) THEN [ts EXCEPT ![ref].cancel = TRUE] ELSE ts

\* (mutant) the delay without its cap
ReconnectDelay_NoCap(attempts) == 2 ^ attempts

\* "reconnect_delay = 2**self._reconnect_attempts", capped
ReconnectDelay(attempts) ==
    IF 2 ^ attempts > MAX_RECONNECT_DELAY THEN MAX_RECONNECT_DELAY ELSE 2 ^ attempts

\* __websocket_reconnect up to its asyncio.sleep, called by task s
Reconnect(s) ==
    /\ reconnect_attempts < MaxAttempts
    /\ reconnect_attempts' = reconnect_attempts + 1
    /\ tasks' = [tasks EXCEPT ![s] = [@ EXCEPT !.pc = "sleep", !.cancel = FALSE,
                                               !.delay = ReconnectDelay(reconnect_attempts + 1),
                                               !.nth = hist.fails + 1]]
    /\ hist' = [hist EXCEPT !.fails = @ + 1]

\* KevoApi.websocket_connect: no await in it
websocket_connect ==
    /\ closer = "idle"
    /\ \E s \in Slots : Ended(tasks[s])
    /\ reconnect_attempts' = 0
    /\ disconnecting' = FALSE
    /\ tasks' = [Cancelled(tasks, websocket_task) EXCEPT ![FreeSlot] = NewTask]
    /\ websocket_task' = FreeSlot
    /\ hist' = [hist EXCEPT !.fails = 0, !.afterClose = FALSE, !.closedInDelay = FALSE]
    /\ UNCHANGED <<websocket, sock, closer, delivered>>
    /\ UNCHANGED restVars
    /\ UNCHANGED frameVars
    /\ UNCHANGED certVars

\* the stream task is waiting in its reconnect delay, and is the only task
InDelay ==
    /\ websocket_task # NoRef
    /\ tasks[websocket_task].pc = "sleep"
    /\ \A s \in Slots : Alive(tasks[s]) => s = websocket_task

\* KevoApi.websocket_close while _websocket is None: no await in it
websocket_close ==
    /\ closer = "idle"
    /\ websocket = NoRef
    /\ disconnecting' = TRUE
    /\ tasks' = Cancelled(tasks, websocket_task)
    /\ hist' = [hist EXCEPT !.afterClose = TRUE, !.closedInDelay = @ \/ InDelay]
    /\ UNCHANGED <<reconnect_attempts, websocket, websocket_task, sock, closer, delivered>>
    /\ UNCHANGED restVars
    /\ UNCHANGED frameVars
    /\ UNCHANGED certVars

\* KevoApi.websocket_close up to "await self._websocket.close()", which
\* closes the connection if it is open
websocket_close_begin ==
    /\ closer = "idle"
    /\ websocket # NoRef
    /\ disconnecting' = TRUE
    /\ sock' = [sock EXCEPT ![websocket] = "closed"]
    /\ closer' = "closing"
    /\ hist' = [hist EXCEPT !.closedInDelay = @ \/ InDelay]
    /\ UNCHANGED <<reconnect_attempts, websocket, websocket_task, tasks, delivered>>
    /\ UNCHANGED restVars
    /\ UNCHANGED frameVars
    /\ UNCHANGED certVars

\* KevoApi.websocket_close after that await: the cancel of _websocket_task
websocket_close_finish ==
    /\ closer = "closing"
    /\ closer' = "idle"
    /\ tasks' = Cancelled(tasks, websocket_task)
    /\ hist' = [hist EXCEPT !.afterClose = TRUE]
    /\ UNCHANGED <<reconnect_attempts, disconnecting, websocket, websocket_task,
                   sock, delivered>>
    /\ UNCHANGED restVars
    /\ UNCHANGED frameVars
    /\ UNCHANGED certVars

\* A task runs its next piece only if no cancellation is pending for it.
Runs(s, at) == tasks[s].pc = at /\ ~tasks[s].cancel

\* __websocket_connect up to "await self.__get_server_nonce()"
task_start(s) ==
    /\ Runs(s, "new")
    /\ tasks' = [tasks EXCEPT ![s].pc = "nonce"]
    /\ UNCHANGED <<reconnect_attempts, disconnecting, websocket, websocket_task,
                   sock, closer, delivered, hist>>
    /\ UNCHANGED restVars
    /\ UNCHANGED frameVars
    /\ UNCHANGED certVars

\* the nonce arrived: verification value, URL, and the first dial
nonce_response(s) ==
    /\ Runs(s, "nonce")
    /\ tasks' = [tasks EXCEPT ![s].pc = "connecting"]
    /\ UNCHANGED <<reconnect_attempts, disconnecting, websocket, websocket_task,
                   sock, closer, delivered, hist>>
    /\ UNCHANGED restVars
    /\ UNCHANGED frameVars
    /\ UNCHANGED certVars

\* "except httpx.HTTPStatusError as ex: raise": the task ends with it
nonce_status_error(s) ==
    /\ Runs(s, "nonce")
    /\ tasks' = EndTask(tasks, s)
    /\ hist' = [hist EXCEPT !.exit = "raised"]
    /\ UNCHANGED <<reconnect_attempts, disconnecting, websocket, websocket_task,
                   sock, closer, delivered>>
    /\ UNCHANGED restVars
    /\ UNCHANGED frameVars
    /\ UNCHANGED certVars

\* "except:" any other exception of the nonce request: reconnect
nonce_other_error(s) ==
    /\ Runs(s, "nonce")
    /\ Reconnect(s)
    /\ UNCHANGED <<disconnecting, websocket, websocket_task, sock, closer, delivered>>
    /\ UNCHANGED restVars
    /\ UNCHANGED frameVars
    /\ UNCHANGED certVars

\* websockets.connect yields an open connection
connect_open(s) ==
    /\ Runs(s, "connecting")
    /\ reconnect_attempts' = 0
    /\ websocket' = s
    /\ sock' = [sock EXCEPT ![s] = "open"]
    /\ tasks' = [tasks EXCEPT ![s] = [@ EXCEPT !.pc = "recv", !.opened = TRUE,
                                               !.reopened = @ \/ tasks[s].opened]]
    /\ hist' = [hist EXCEPT !.fails = 0]
    /\ UNCHANGED <<disconnecting, websocket_task, closer, delivered>>
    /\ UNCHANGED restVars
    /\ UNCHANGED frameVars
    /\ UNCHANGED certVars

\* a frame arrives: "self.__process_message(message)", and the receive
\* loop goes on
recv_message(s, f, beh) ==
    /\ Runs(s, "recv")
    /\ sock[s] = "open"
    /\ delivered < MaxMessages
    /\ delivered' = delivered + 1
    /\ LET r == ProcessMessage(devices, callbacks, f, beh)
       IN  /\ devices' = r.devices
           /\ callbacks' = r.cbs
           /\ dispatch' = [frame |-> f, found |-> r.found, start |-> callbacks,
                           end |-> r.cbs, calls |-> r.calls, acts |-> r.acts]
    /\ UNCHANGED <<reconnect_attempts, disconnecting, websocket, websocket_task,
                   tasks, sock, closer, hist>>
    /\ UNCHANGED <<now, tok, user_id, respSeq, login, ops>>
    /\ UNCHANGED certVars

\* the connection was closed normally (by the server or by websocket_close):
\* "async for message in websocket" ends without an exception, and the
\* "async for ... in websockets.connect(...)" around it dials again
recv_closed_ok(s) ==
    /\ Runs(s, "recv")
    /\ sock' = [sock EXCEPT ![s] = "closed"]
    /\ tasks' = [tasks EXCEPT ![s].pc = "connecting"]
    /\ UNCHANGED <<reconnect_attempts, disconnecting, websocket, websocket_task,
                   closer, delivered, hist>>
    /\ UNCHANGED restVars
    /\ UNCHANGED frameVars
    /\ UNCHANGED certVars

\* "except websockets.ConnectionClosed:" while not disconnecting: reconnect
recv_closed_error(s) ==
    /\ Runs(s, "recv")
    /\ ~disconnecting
    /\ sock' = [sock EXCEPT ![s] = "closed"]
    /\ Reconnect(s)
    /\ UNCHANGED <<disconnecting, websocket, websocket_task, closer, delivered>>
    /\ UNCHANGED restVars
    /\ UNCHANGED frameVars
    /\ UNCHANGED certVars

\* "except websockets.ConnectionClosed:" while disconnecting: return
recv_closed_error_disconnecting(s) ==
    /\ Runs(s, "recv")
    /\ disconnecting
    /\ sock' = [sock EXCEPT ![s] = "closed"]
    /\ tasks' = EndTask(tasks, s)
    /\ hist' = [hist EXCEPT !.exit = "returned"]
    /\ UNCHANGED <<reconnect_attempts, disconnecting, websocket, websocket_task,
                   closer, delivered>>
    /\ UNCHANGED restVars
    /\ UNCHANGED frameVars
    /\ UNCHANGED certVars

\* "except Exception as ex:" reconnect, whatever _disconnecting is; the
\* connection is not closed by it
recv_error(s) ==
    /\ Runs(s, "recv")
    /\ Reconnect(s)
    /\ UNCHANGED <<disconnecting, websocket, websocket_task, sock, closer, delivered>>
    /\ UNCHANGED restVars
    /\ UNCHANGED frameVars
    /\ UNCHANGED certVars

\* __websocket_reconnect after its asyncio.sleep: the new task, and the
\* return of the old one
sleep_done(s) ==
    /\ Runs(s, "sleep")
    /\ \E f \in Slots : Ended(tasks[f])
    /\ tasks' = [EndTask(tasks, s) EXCEPT ![FreeSlot] = NewTask]
    /\ websocket_task' = FreeSlot
    /\ sock' = Released(sock, s)
    /\ hist' = [hist EXCEPT !.exit = "returned"]
    /\ UNCHANGED <<reconnect_attempts, disconnecting, websocket, closer, delivered>>
    /\ UNCHANGED restVars
    /\ UNCHANGED frameVars
    /\ UNCHANGED certVars

\* The CancelledError is thrown into a task that has not run yet, or that
\* waits in websockets.connect, in the receive loop or in asyncio.sleep:
\* no except clause there catches it (it is no Exception) and the task ends.
cancel_delivered(s) ==
    /\ tasks[s].cancel
    /\ tasks[s].pc \in {"new", "connecting", "recv", "sleep"}
    /\ tasks' = EndTask(tasks, s)
    /\ sock' = Released(sock, s)
    /\ hist' = [hist EXCEPT !.exit = "cancelled"]
    /\ UNCHANGED <<reconnect_attempts, disconnecting, websocket, websocket_task,
                   closer, delivered>>
    /\ UNCHANGED restVars
    /\ UNCHANGED frameVars
    /\ UNCHANGED certVars

\* The CancelledError is thrown into "await self.__get_server_nonce()": it
\* is no httpx.HTTPStatusError, so the bare "except:" catches it and calls
\* __websocket_reconnect.
cancel_delivered_in_nonce(s) ==
    /\ tasks[s].cancel
    /\ tasks[s].pc = "nonce"
    /\ Reconnect(s)
    /\ UNCHANGED <<disconnecting, websocket, websocket_task, sock, closer, delivered>>
    /\ UNCHANGED restVars
    /\ UNCHANGED frameVars
    /\ UNCHANGED certVars

\* the stream's variables after KevoApi.__init__ (which does not set
\* _reconnect_attempts: websocket_connect does, before any task reads it)
StreamConstructed ==
    /\ reconnect_attempts = 0
    /\ disconnecting = FALSE
    /\ websocket = NoRef
    /\ websocket_task = NoRef
    /\ tasks = [s \in Slots |-> NoTask]
    /\ sock = [s \in Slots |-> "none"]
    /\ closer = "idle"
    /\ delivered = 0
    /\ hist = [fails |-> 0, afterClose |-> FALSE, closedInDelay |-> FALSE,
               exit |-> "none"]
    /\ callbacks = <<>>
    /\ dispatch = NoDispatch
    /\ device_id = ZeroUuid
    /\ certs = <<>>

(***************************************************************************)
(* The REST specification.                                                 *)
(***************************************************************************)
NoDevices == <<>>

InitRest ==
    /\ now = 0
    /\ tok = InitTok
    /\ user_id = "none"
    /\ respSeq = 0
    /\ login = [pc |-> "idle", result |-> "none", cred |-> "none"]
    /\ ops = [o \in Ops |-> IdleOp]
    /\ devices = NoDevices
    /\ StreamConstructed

\* a payload matters only to a 2xx answer
PayloadsFor(st) == IF st = "2xx" THEN LockPayloads ELSE {<<>>}

NextRest ==
    \/ Tick
    \/ login_begin
    \/ \E st \in {"302", "2xx", "err"} : login_auth_response(st)
    \/ \E st \in {"2xx", "err"}, scraped \in BOOLEAN : login_page_response(st, scraped)
    \/ \E st \in {"302", "2xx", "err"}, invalid \in BOOLEAN : login_cred_response(st, invalid)
    \/ \E st \in {"302", "2xx", "err"}, hasCode \in BOOLEAN : login_redirect_response(st, hasCode)
    \/ \E r \in TokenResponses, jwtOk \in BOOLEAN : login_token_response(r, jwtOk)
    \/ \E o \in Ops : api_post_begin(o)
    \/ \E o \in Ops : get_locks_begin(o)
    \/ \E o \in Ops, r \in TokenResponses : async_refresh_token_response(o, r)
    \/ \E o \in Ops, ok \in BOOLEAN : get_headers_response(o, ok)
    \/ \E o \in Ops, st \in RestStatuses : \E p \in PayloadsFor(st) : rest_response(o, st, p)
    \/ \E o \in Ops, st \in RestStatuses : \E p \in PayloadsFor(st) : rest_retry_response(o, st, p)

SpecRest == InitRest /\ [][NextRest]_vars

(***************************************************************************)
(* The stream specification: the client after a login that succeeded.      *)
(***************************************************************************)
InitStream ==
    /\ now = 0
    /\ tok = [access |-> 1, id |-> 1, refresh |-> 1,
              expires_at |-> 2 * ExpiryMargin, exp_src |-> 1]
    /\ user_id = "sub"
    /\ respSeq = 1
    /\ login = [pc |-> "returned", result |-> "None", cred |-> "redirect"]
    /\ ops = [o \in Ops |-> IdleOp]
    /\ devices = NoDevices
    /\ StreamConstructed

\* no lock is listed when the stream is looked at by itself, so that every
\* frame is one that __process_message passes over
StreamFrames == {OtherFrame}

NextStream ==
    \/ websocket_connect
    \/ websocket_close
    \/ websocket_close_begin
    \/ websocket_close_finish
    \/ \E s \in Slots : task_start(s)
    \/ \E s \in Slots : nonce_response(s)
    \/ \E s \in Slots : nonce_status_error(s)
    \/ \E s \in Slots : nonce_other_error(s)
    \/ \E s \in Slots : connect_open(s)
    \/ \E s \in Slots, f \in StreamFrames, beh \in Behaviours : recv_message(s, f, beh)
    \/ \E s \in Slots : recv_closed_ok(s)
    \/ \E s \in Slots : recv_closed_error(s)
    \/ \E s \in Slots : recv_closed_error_disconnecting(s)
    \/ \E s \in Slots : recv_error(s)
    \/ \E s \in Slots : sleep_done(s)
    \/ \E s \in Slots : cancel_delivered(s)
    \/ \E s \in Slots : cancel_delivered_in_nonce(s)

SpecStream == InitStream /\ [][NextStream]_vars

(***************************************************************************)
(* The frame specification: a client that has logged in, has called        *)
(* get_locks and whose stream task is connected and receiving.  Frames     *)
(* arrive, observers register and de-register, and get_locks is called     *)
(* again.                                                                  *)
(***************************************************************************)
InitFrames ==
    /\ now = 0
    /\ tok = [access |-> 1, id |-> 1, refresh |-> 1,
              expires_at |-> 2 * ExpiryMargin, exp_src |-> 1]
    /\ user_id = "sub"
    /\ respSeq = 1
    /\ login = [pc |-> "returned", result |-> "None", cred |-> "redirect"]
    /\ ops = [o \in Ops |-> IdleOp]
    /\ devices \in {[i \in 1..Len(p) |-> KevoLock(p[i])] : p \in LockPayloads}
    /\ reconnect_attempts = 0
    /\ disconnecting = FALSE
    /\ websocket = 1
    /\ websocket_task = 1
    /\ tasks = [s \in Slots |-> IF s = 1
                                 THEN [NewTask EXCEPT !.pc = "recv", !.opened = TRUE]
                                 ELSE NoTask]
    /\ sock = [s \in Slots |-> IF s = 1 THEN "open" ELSE "none"]
    /\ closer = "idle"
    /\ delivered = 0
    /\ hist = [fails |-> 0, afterClose |-> FALSE, closedInDelay |-> FALSE,
               exit |-> "none"]
    /\ callbacks = <<>>
    /\ dispatch = NoDispatch
    /\ device_id = ZeroUuid
    /\ certs = <<>>

\* observers that return when they are invoked
QuietBehaviours == {[c \in CallbackIds |-> "ok"]}

\* the token is fresh and the API answers get_locks with its list or with
\* an error that is not one of authorization
NextFrames ==
    \/ \E s \in Slots, f \in Frames, beh \in QuietBehaviours : recv_message(s, f, beh)
    \/ \E c \in CallbackIds \ Registered(callbacks) : register_callback(c)
    \/ \E c \in CallbackIds : unregister_callback(c)
    \/ get_locks_begin(1)
    \/ \E o \in Ops, ok \in BOOLEAN : get_headers_response(o, ok)
    \/ \E o \in Ops, st \in {"2xx", "other"} : \E p \in PayloadsFor(st) : rest_response(o, st, p)

SpecFrames == InitFrames /\ [][NextFrames]_vars

(***************************************************************************)
(* The observer specification: the same client, with observers that may    *)
(* raise, de-register themselves or register another observer when they    *)
(* are invoked.                                                            *)
(***************************************************************************)
\* a frame that is passed over, one of a lock that is not listed, and two
\* of the listed lock
ObserverFrames ==
    {f \in Frames : \/ f.lockId # "L1"
                    \/ /\ f.command = NoCommand
                       /\ f.boltState \in {LOCK_STATE_LOCK, LOCK_STATE_UNLOCK}}

NextObservers ==
    \/ \E s \in Slots, f \in ObserverFrames, beh \in Behaviours : recv_message(s, f, beh)
    \/ \E c \in CallbackIds \ Registered(callbacks) : register_callback(c)
    \/ \E c \in CallbackIds : unregister_callback(c)

SpecObservers == InitFrames /\ [][NextObservers]_vars

(***************************************************************************)
(* The certificate specification: a client with some device id, at some    *)
(* second, builds its device certificate again and again.                  *)
(***************************************************************************)
InitCert ==
    /\ now \in CertTimes
    /\ tok = InitTok
    /\ user_id = "none"
    /\ respSeq = 0
    /\ login = [pc |-> "idle", result |-> "none", cred |-> "none"]
    /\ ops = [o \in Ops |-> IdleOp]
    /\ devices = NoDevices
    /\ reconnect_attempts = 0
    /\ disconnecting = FALSE
    /\ websocket = NoRef
    /\ websocket_task = NoRef
    /\ tasks = [s \in Slots |-> NoTask]
    /\ sock = [s \in Slots |-> "none"]
    /\ closer = "idle"
    /\ delivered = 0
    /\ hist = [fails |-> 0, afterClose |-> FALSE, closedInDelay |-> FALSE,
               exit |-> "none"]
    /\ callbacks = <<>>
    /\ dispatch = NoDispatch
    /\ device_id \in DeviceIds
    /\ certs = <<>>

NextCert == \E r1 \in RandomBytes, r2 \in RandomBytes : generate_certificate(r1, r2)

SpecCert == InitCert /\ [][NextCert]_vars

(***************************************************************************)
(* Claims about the REST operations and the token set (under SpecRest).    *)
(***************************************************************************)
Finished(op) == op.pc \in {"returned", "raised"}

\* refresh requests the expiry check of the call must have sent: one when
\* the expiry it read was less than 100 s after the time it read, else none
DueToExpiry(op) == IF op.chkT < op.chkNow + 100 THEN 1 ELSE 0

\* C1: a get_locks or _api_post call whose request has been issued and was
\* not answered 403 has called async_refresh_token exactly once if the expiry
\* t it checked was < now + 100, and not at all if t >= now + 100.
C1_RefreshIffExpired ==
    \A o \in Ops :
        (ops[o].nReq >= 1 /\ ops[o].st1 # "403") =>
            /\ ops[o].chk
            /\ ops[o].nRefresh = DueToExpiry(ops[o])

\* both cases, and the boundary t = now + 100, in calls of both kinds
C1_Witness ==
    /\ \E o \in Ops : /\ ops[o].pc = "returned"
                      /\ ops[o].kind = "get_locks"
                      /\ ops[o].nRefresh = 1
    /\ \E o \in Ops : /\ ops[o].pc = "returned"
                      /\ ops[o].kind = "_api_post"
                      /\ ops[o].chkT = ops[o].chkNow + 100
                      /\ ops[o].nRefresh = 0

\* C2 (as claimed): at no time is more than one refresh request in flight.
C2_SingleFlight ==
    Cardinality({o \in Ops : ops[o].pc \in {"refresh1", "refresh2"}}) <= 1

\* C3: once the first attempt of a call was answered 403, the call has sent
\* exactly one refresh for it, never sends more than two requests, has sent
\* exactly two once that refresh and the new headers were obtained, and a
\* 403 on the retry ends the call with KevoAuthError.
C3_OneRefreshOneRetry ==
    \A o \in Ops :
        ops[o].st1 = "403" =>
            /\ ops[o].nRefresh - DueToExpiry(ops[o]) = 1
            /\ ops[o].nReq <= 2
            /\ (ops[o].pc = "req2" \/ ops[o].st2 # "none") => ops[o].nReq = 2
            /\ (Finished(ops[o]) /\ ops[o].raisedAt \notin {"refresh2", "nonce2"})
                   => ops[o].st2 # "none"
            /\ ops[o].st2 = "403" =>
                   /\ ops[o].pc = "raised"
                   /\ ops[o].result = "KevoAuthError"

C3_Witness ==
    /\ \E o \in Ops : /\ ops[o].kind = "get_locks"
                      /\ ops[o].st1 = "403" /\ ops[o].st2 = "403"
                      /\ ops[o].result = "KevoAuthError"
    /\ \E o \in Ops : /\ ops[o].kind = "_api_post"
                      /\ ops[o].st1 = "403" /\ ops[o].st2 = "403"
                      /\ ops[o].result = "KevoAuthError"
                      /\ ops[o].nRefresh = 2

\* C4 (as claimed): get_locks and _api_post end alike for every pair of
\* statuses, KevoAuthError is raised only after a 403 on both attempts, and a
\* 403 followed by a 2xx retry returns the response.
C4_SameOutcome ==
    /\ \A o \in Ops :
           /\ ops[o].result = "KevoAuthError" =>
                  ops[o].st1 = "403" /\ ops[o].st2 = "403"
           /\ (ops[o].st1 = "403" /\ ops[o].st2 = "2xx") => ops[o].pc = "returned"
    /\ \A o, p \in Ops :
           (/\ Finished(ops[o]) /\ Finished(ops[p])
            /\ ops[o].raisedAt \in {"none", "req1", "req2"}
            /\ ops[p].raisedAt \in {"none", "req1", "req2"}
            /\ ops[o].st1 = ops[p].st1 /\ ops[o].st2 = ops[p].st2)
               => ops[o].result = ops[p].result

\* C5 (as claimed): a 401 on the first attempt or on the retry ends the call
\* with KevoPermissionError, and a 401 is followed by no refresh and no retry.
C5_PermissionErrorOn401 ==
    \A o \in Ops :
        /\ (ops[o].st1 = "401" \/ ops[o].st2 = "401") =>
               /\ ops[o].pc = "raised"
               /\ ops[o].result = "KevoPermissionError"
        /\ ops[o].st1 = "401" =>
               /\ ops[o].nReq = 1
               /\ ops[o].nRefresh = DueToExpiry(ops[o])

\* C6 (as claimed): between any two steps of any task, and after any call
\* has returned or raised, the three tokens and the expiry come from one and
\* the same token-endpoint response.
C6_TokenSetWhole ==
    /\ tok.access = tok.id
    /\ tok.id = tok.refresh
    /\ tok.refresh = tok.exp_src

\* C7: a refresh that the token endpoint answers with a non-2xx status
\* raises in its caller, leaves the token set as it was, and the caller,
\* having raised, sends nothing more.
C7_FailedRefreshKeepsTokens ==
    [][\A o \in Ops :
          /\ (/\ ops[o].pc \in {"refresh1", "refresh2"}
              /\ ops'[o].result = "HTTPStatusError")
                 => /\ ops'[o].pc = "raised"
                    /\ tok' = tok
          /\ ops[o].pc = "raised" => ops'[o] = ops[o]]_vars

\* a refresh failed while the token set was populated, both as the refresh
\* of the expiry check and as the refresh after a 403
C7_Witness ==
    /\ tok.access # NoToken
    /\ \E o \in Ops : /\ ops[o].raisedAt = "refresh1"
                      /\ ops[o].result = "HTTPStatusError"
    /\ \E o \in Ops : /\ ops[o].raisedAt = "refresh2"
                      /\ ops[o].result = "HTTPStatusError"

(***************************************************************************)
(* Claims about the event stream (under SpecStream).                       *)
(***************************************************************************)
Min(a, b) == IF a < b THEN a ELSE b

C9_CloseInDelayStopsReconnect ==
    [][(hist.closedInDelay /\ hist'.closedInDelay) =>
          /\ \A s \in Slots : tasks'[s].pc = "new" => tasks[s].pc = "new"
          /\ hist.afterClose => delivered' = delivered]_vars

\* C10 (as claimed): once websocket_close has returned, a task does nothing
\* but end: it fetches no nonce, opens no connection, starts no reconnect
\* delay and creates no task.
C10_NoActivityAfterClose ==
    [][(hist.afterClose /\ hist'.afterClose) =>
          \A s \in Slots : tasks'[s].pc \in {tasks[s].pc, "ended"}]_vars

\* C11 (as claimed): while no close was requested, a nonce fetch of the
\* stream task that fails, by a transport failure or by a non-2xx status,
\* puts the task in its reconnect delay and does not end it with the error.
C11_NonceFailureReconnects ==
    [][\A s \in Slots :
          (/\ tasks[s].pc = "nonce"
           /\ ~tasks[s].cancel
           /\ ~disconnecting
           /\ tasks'[s].pc \notin {"nonce", "connecting"})
              => /\ tasks'[s].pc = "sleep"
                 /\ hist'.exit # "raised"]_vars

(***************************************************************************)
(* Claims about frames and observers (under SpecFrames and SpecObservers). *)
(***************************************************************************)
\* a frame has been handed to __process_message by this step
FrameStep == delivered' # delivered

\* the frame is a lock-status message of a lock that devs lists
ForKnownLock(f, devs) ==
    /\ f.messageType = "LockStatus"
    /\ \E i \in 1..Len(devs) : devs[i].lock_id = f.lockId

\* C12: a frame that is not a lock-status message, or whose lock_id is that
\* of no listed device, changes no field of any device, invokes no observer
\* and leaves the task in its receive loop on its open connection.
C12_IgnoredFrameNoEffect ==
    [][(FrameStep /\ ~ForKnownLock(dispatch'.frame, devices)) =>
          /\ devices' = devices
          /\ callbacks' = callbacks
          /\ dispatch'.calls = <<>>
          /\ tasks' = tasks
          /\ sock' = sock]_vars

\* the second frame was one of a lock that is not listed, a lock is listed
\* and an observer is registered
C12_Witness ==
    /\ delivered = 2
    /\ devices # <<>>
    /\ callbacks # <<>>
    /\ dispatch.frame.messageType = "LockStatus"
    /\ dispatch.frame.lockId = "L9"
    /\ \E s \in Slots : tasks[s].pc = "recv" /\ sock[s] = "open"

\* the frame carries every key __process_message reads
WellFormed(f) == f.boltState # KeyMissing /\ f.command # AbsentCommand

\* the record of lock_id id in devs has these is_locked and is_jammed
LockedJammed(devs, id, locked, jammed) ==
    \A i \in 1..Len(devs) :
        devs[i].lock_id = id =>
            /\ devs[i].is_locked = locked
            /\ devs[i].is_jammed = jammed

C14_CommandStatusMapping ==
    [][(/\ FrameStep
        /\ ForKnownLock(dispatch'.frame, devices)
        /\ WellFormed(dispatch'.frame)
        /\ dispatch'.frame.command # NoCommand) =>
          LET f == dispatch'.frame
          IN  \A i \in 1..Len(devices') :
                  devices'[i].lock_id = f.lockId =>
                      /\ f.command.status \in {"Complete", "Cancelled"} =>
                             /\ ~devices'[i].is_locking
                             /\ ~devices'[i].is_unlocking
                      /\ f.command.status \in {"Processing", "Delivered"} =>
                             /\ devices'[i].is_locking # devices'[i].is_unlocking
                             /\ f.command.type = LOCK_STATE_LOCK =>
                                    devices'[i].is_locking]_vars

\* a lock command is in progress after an unlock command was
C14_Witness ==
    /\ delivered = 2
    /\ dispatch.frame.command.status = "Processing"
    /\ dispatch.frame.command.type = LOCK_STATE_LOCK
    /\ \E i \in 1..Len(devices) : /\ devices[i].lock_id = dispatch.frame.lockId
                                  /\ devices[i].is_locking
                                  /\ ~devices[i].is_unlocking

\* occurrences of callback c in a sequence of calls
Count(calls, c) == Cardinality({k \in 1..Len(calls) : calls[k] = c})

\* no callback invoked in the last dispatch registered or de-registered
Undisturbed(d) == \A k \in 1..Len(d.acts) : d.acts[k] \in {"ok", "raise"}

\* C15: when observers raise during the dispatch of a frame (and none of
\* them changes the set), every observer of the set is invoked for that
\* frame, those after a raising one included, and the task stays in its
\* receive loop on its open connection.
C15_ObserverFailureIsolated ==
    [][(/\ FrameStep
        /\ ForKnownLock(dispatch'.frame, devices)
        /\ WellFormed(dispatch'.frame)) =>
          /\ Undisturbed(dispatch') => dispatch'.calls = callbacks
          /\ tasks' = tasks
          /\ sock' = sock]_vars

\* the first of two observers raised during the second frame and the other
\* one was invoked after it
C15_Witness ==
    /\ delivered = 2
    /\ Len(dispatch.start) = 2
    /\ dispatch.acts = <<"raise", "ok">>
    /\ dispatch.calls = dispatch.start
    /\ \E s \in Slots : tasks[s].pc = "recv" /\ sock[s] = "open"

\* C16 (as claimed): every observer that was registered when a dispatch
\* started and was not de-registered during it has been invoked exactly once
\* for that frame.
C16_DispatchCoversSet ==
    dispatch.found =>
        \A c \in Registered(dispatch.start) :
            (\A k \in 1..Len(dispatch.calls) :
                 dispatch.calls[k] = c => dispatch.acts[k] # "unregister")
                => Count(dispatch.calls, c) = 1

(***************************************************************************)
(* Claims about login (under SpecRest).                                    *)
(***************************************************************************)
\* C17 (as claimed): login has returned without raising only if the three
\* tokens, the expiry and the user id are populated.
C17_LoginReturnsPopulated ==
    login.pc = "returned" =>
        /\ tok.access # NoToken
        /\ tok.id # NoToken
        /\ tok.refresh # NoToken
        /\ tok.exp_src # NoToken
        /\ user_id # "none"

\* C18: when the credential POST is answered by a redirect to the
\* invalid-login URL, login raises KevoAuthError at once, with the token
\* set, the user id and the number of token-endpoint answers as they were,
\* and does nothing afterwards.
C18_InvalidLoginRaisesAuthError ==
    [][/\ (login.pc = "cred" /\ login'.cred = "invalid") =>
              /\ login'.pc = "raised"
              /\ login'.result = "KevoAuthError"
              /\ tok' = tok
              /\ user_id' = user_id
              /\ respSeq' = respSeq
       /\ login.cred = "invalid" => login' = login]_vars

C18_Witness ==
    /\ login.cred = "invalid"
    /\ login.pc = "raised"
    /\ login.result = "KevoAuthError"
    /\ respSeq = 0

(***************************************************************************)
(* Claims about the device records (under SpecFrames).                     *)
(***************************************************************************)
\* C19 (as claimed): once a frame of a listed lock has been processed, a
\* step that is not the processing of a frame, a get_locks call that returns
\* among them, leaves the stream-sourced fields of the record of every
\* lock_id that is listed before and after it as the frames set them.
C19_RecordsSurviveGetLocks ==
    [][(dispatch.found /\ ~FrameStep) =>
          \A i \in 1..Len(devices), j \in 1..Len(devices') :
              devices[i].lock_id = devices'[j].lock_id =>
                  /\ devices'[j].is_locking = devices[i].is_locking
                  /\ devices'[j].is_unlocking = devices[i].is_unlocking
                  /\ devices'[j].is_locked = devices[i].is_locked
                  /\ devices'[j].is_jammed = devices[i].is_jammed
                  /\ devices'[j].battery_level = devices[i].battery_level]_vars

(***************************************************************************)
(* Claims about the nonces.                                                *)
(***************************************************************************)
\* C20 (as claimed): every request of a REST call carries the nonce pair of
\* a fetch of its own, and no stream task opens a second connection with the
\* nonce pair and verification value it opened one with.
C20_NoncesUsedOnce ==
    /\ \A o \in Ops :
           ops[o].pc \in {"req1", "req2"} => ops[o].hdr.nonce = ops[o].nReq
    /\ \A s \in Slots : ~tasks[s].reopened

(***************************************************************************)
(* Claims about the device certificate (under SpecCert).                   *)
(***************************************************************************)
\* the value of the length-prefixed field with this tag, read from position
\* i of the bytes on: a tag, a length in two bytes (lowest first), the value
RECURSIVE FieldFrom(_, _, _)
FieldFrom(bytes, i, tag) ==
    IF i + 2 > Len(bytes)
    THEN <<>>
    ELSE LET n == bytes[i + 1] + 256 * bytes[i + 2]
         IN  IF bytes[i] = tag
             THEN SubSeq(bytes, i + 3, i + 2 + n)
             ELSE FieldFrom(bytes, i + 3 + n, tag)

Field(bytes, tag) == FieldFrom(bytes, 1, tag)

\* the inverse of the byte-order transform of a UUID
DecodeUuid(b) ==
    LET r == Reverse(b)
    IN  Reverse(SubSeq(r, 1, 4)) \o Reverse(SubSeq(r, 5, 6))
        \o Reverse(SubSeq(r, 7, 8)) \o SubSeq(r, 9, 10) \o SubSeq(r, 11, 16)

CertTags == {16, 17, 18, 19, 20, 21, 22, 48, 49, 50, 53, 54}

\* C21 (as claimed): for one device id and one time, any two runs of the
\* encoding give the same bytes, and the field with tag 50 decodes to the
\* device id.
C21_CertificateDeterministic ==
    \A i, j \in 1..Len(certs) :
        /\ certs[i] = certs[j]
        /\ DecodeUuid(Field(certs[i], 50)) = device_id

\* C21 (amended): for one device id and one time, any two runs of the
\* encoding give byte lists of the same length whose fields agree, but for
\* the 32-byte values of the fields with tags 53 and 54; and the field with
\* tag 50 decodes to the device id.
C21_CertificateRoundTrip ==
    \A i, j \in 1..Len(certs) :
        /\ Len(certs[i]) = Len(certs[j])
        /\ \A t \in CertTags \ {53, 54} : Field(certs[i], t) = Field(certs[j], t)
        /\ Len(Field(certs[i], 53)) = 32
        /\ Len(Field(certs[i], 54)) = 32
        /\ DecodeUuid(Field(certs[i], 50)) = device_id

\* two runs that differ, for a device id whose bytes are all different
C21_Witness ==
    /\ Len(certs) = 2
    /\ certs[1] # certs[2]
    /\ device_id = [i \in 1..16 |-> i]
    /\ now = 1700000000
    /\ Field(certs[2], 50) = <<16, 15, 14, 13, 12, 11, 10, 9, 7, 8, 5, 6, 1, 2, 3, 4>>

(***************************************************************************)
(* Claims about commands and device records (under SpecRest).              *)
(***************************************************************************)
\* C22: no step of an _api_post call (KevoLock.lock, KevoLock.unlock), from
\* its expiry check to its return or its exception, changes _devices.
C22_CommandLeavesDevices ==
    [][(\E o \in Ops : /\ ops'[o] # ops[o]
                       /\ ops'[o].kind = "_api_post") => devices' = devices]_vars

\* a command was sent twice, after a 403, and has returned or raised,
\* while locks are listed
C22_Witness ==
    /\ devices # <<>>
    /\ \E o \in Ops : /\ ops[o].kind = "_api_post"
                      /\ ops[o].st1 = "403"
                      /\ ops[o].pc \in {"returned", "raised"}
                      /\ ops[o].st2 \in {"2xx", "403"}

(***************************************************************************)
(* Further claims about the event stream (under SpecStream).               *)
(***************************************************************************)
\* C23 (as claimed): once websocket_close has returned, and until
\* websocket_connect is called, the disconnecting flag is set, no stream
\* task is active but for tasks whose cancellation is under way, and a
\* further websocket_close would change nothing: the connection is closed
\* already and the task it would cancel has ended or is being cancelled.
C23_CloseIdempotent ==
    (hist.afterClose /\ closer = "idle") =>
        /\ disconnecting
        /\ \A s \in Slots : Alive(tasks[s]) => tasks[s].cancel
        /\ websocket # NoRef => sock[websocket] # "open"
        /\ Cancelled(tasks, websocket_task) = tasks

(***************************************************************************)
(* Further claims about the REST operations (under SpecRest).              *)
(***************************************************************************)
\* C24 (as claimed): when the expiry check of a call triggered a refresh,
\* the first request of the call carries the access token the refresh
\* brought, never the one that was current at the check.
C24_RequestCarriesRefreshedToken ==
    \A o \in Ops :
        (ops[o].pc = "req1" /\ ops[o].nRefresh = 1) =>
            ops[o].hdr.auth # ops[o].chkA

\* C25 (as claimed): while the disconnecting flag is set, no task enters a
\* reconnect delay, no task is created, and no task leaves its receive loop
\* to dial again.
C25_NoReconnectWhileDisconnecting ==
    [][(disconnecting /\ disconnecting') =>
          \A s \in Slots :
              /\ tasks'[s].pc = "sleep" => tasks[s].pc = "sleep"
              /\ tasks'[s].pc = "new" => tasks[s].pc = "new"
              /\ tasks[s].pc = "recv" => tasks'[s].pc # "connecting"]_vars

\* C26 (as claimed): while the client is not closing or closed, the task
\* _websocket_task refers to has not terminated, with or without an
\* exception.
C26_TaskNeverTerminates ==
    (~disconnecting /\ websocket_task # NoRef) => Alive(tasks[websocket_task])

\* C27 (as claimed): at any time at most one stream task is connecting,
\* receiving or waiting to reconnect.
C27_SingleStreamTask ==
    Cardinality({s \in Slots : tasks[s].pc \in {"connecting", "recv", "sleep"}}) <= 1

\* C28 (as claimed): whenever processing a lock-status frame of a listed
\* lock changes a field of its device record, the dispatch loop is reached
\* and every registered observer is invoked once with the record, in order.
C28_MutationIsNotified ==
    [][(/\ FrameStep
        /\ ForKnownLock(dispatch'.frame, devices)
        /\ devices' # devices) =>
          /\ dispatch'.found
          /\ dispatch'.calls = dispatch'.start]_vars

\* the values is_locked takes: True, False and None
LockedValues == {"True", "False", None}

\* C29 (as claimed): once a lock-status frame of a listed lock has been
\* processed, the device's (is_locked, is_jammed) is what the same frame
\* gives from any other earlier value of is_locked: it depends on the
\* frame's bolt state alone.
C29_BoltMappingIsLookup ==
    [][(/\ FrameStep
        /\ ForKnownLock(dispatch'.frame, devices)
        /\ WellFormed(dispatch'.frame)) =>
          LET f == dispatch'.frame
          IN  \A i \in 1..Len(devices) :
                  devices[i].lock_id = f.lockId =>
                      \A l \in LockedValues :
                          LET other == BoltStateEffect(
                                           [devices[i] EXCEPT !.is_locked = l],
                                           f.boltState)
                          IN  /\ devices'[i].is_locked = other.is_locked
                              /\ devices'[i].is_jammed = other.is_jammed]_vars

\* C30: in every reachable state, no device record has is_locking and
\* is_unlocking both true.
C30_NotLockingAndUnlocking ==
    \A i \in 1..Len(devices) : ~(devices[i].is_locking /\ devices[i].is_unlocking)

\* the second frame reported an unlock command in progress, and the device
\* is unlocking
C30_Witness ==
    /\ delivered = 2
    /\ dispatch.found
    /\ dispatch.frame.command.status = COMMAND_STATUS_DELIVERED
    /\ dispatch.frame.command.type = LOCK_STATE_UNLOCK
    /\ \E i \in 1..Len(devices) : /\ devices[i].lock_id = dispatch.frame.lockId
                                  /\ devices[i].is_unlocking
                                  /\ ~devices[i].is_locking

\* the record get_locks builds for a lock the API lists with the identity
\* of record lock and bolt state boltState
ListedAs(lock, boltState) ==
    KevoLock([id |-> lock.lock_id, name |-> lock.name,
              firmwareVersion |-> lock.firmware,
              batteryLevel |-> lock.battery_level,
              boltState |-> boltState, brand |-> lock.brand])

\* C31 (as claimed): once a lock-status frame of a listed lock has been
\* processed, the device's (is_locked, is_jammed) is the pair the KevoLock
\* constructor gives a record listed with the same bolt state; for a bolt
\* state that is not known both are None.
C31_ConstructorAgreesWithFrame ==
    [][(/\ FrameStep
        /\ ForKnownLock(dispatch'.frame, devices)
        /\ WellFormed(dispatch'.frame)) =>
          LET f == dispatch'.frame
          IN  \A i \in 1..Len(devices') :
                  devices'[i].lock_id = f.lockId =>
                      LET listed == ListedAs(devices'[i], f.boltState)
                      IN  /\ devices'[i].is_locked = listed.is_locked
                          /\ devices'[i].is_jammed = listed.is_jammed
                          /\ f.boltState \notin {"Locked", "Unlocked", "BoltJam",
                                                 "LockedBoltJam", "UnlockedBoltJam"} =>
                                 /\ listed.is_locked = None
                                 /\ listed.is_jammed = None]_vars

====
